---- MODULE Spec2Model ----
(***************************************************************************)
(* A model of swift/obj/auditor.py (the object auditor: AuditorWorker and  *)
(* ObjectAuditor) and of swift/common/crypto_utils.py (the crypto-meta     *)
(* codec), with the properties the specification states about them.       *)
(***************************************************************************)
EXTENDS Integers, Sequences, FiniteSets, TLC

(***************************************************************************)
(* Bounds of the model.                                                    *)
(***************************************************************************)
\* Number of object directories on the audited device.
NumObjects == 2
\* Number of object directories in a tree that two processes scan.
NumShared == 1

(***************************************************************************)
(* PART I.  The object auditor.                                            *)
(***************************************************************************)

VARIABLES
    disk,       \* disk[o]: what is stored in object directory o (never written by the auditor)
    place,      \* place[o]: "orig" (in the objects tree) or "quar" (quarantined/objects/<basename>)
    entry,      \* the method the daemon was started with: "run_once" or "run_forever"
    conf_zero_byte_fps,  \* ObjectAuditor.conf_zero_byte_fps
    kw,         \* kw[p]: the zero_byte_fps keyword p passes to run_once
    pc,         \* pc[p]: position of process p
    worker,     \* worker[p]: the fields of the AuditorWorker of p's current pass
    cursor,     \* cursor[p]: how far p's location walker has got
    call,       \* call[p]: the object_audit call in progress or just returned
    exc,        \* exc[p]: where the exception that ended p was raised ("none" while alive)
    renames,    \* renames[p]: directories p renamed since its last counter reset
    codec       \* the last call of a crypto_utils function: its arguments and its result

auditorVars ==
    <<disk, place, entry, conf_zero_byte_fps, kw, pc, worker, cursor, call, exc, renames>>

\* The two processes of run_forever: the caller of os.fork() and its child.
Procs == {"parent", "child"}

Objects == DOMAIN disk

\* hashlib.md5(...).hexdigest(), idealised as an injective function of the content.
MD5(chunks) == <<"md5", chunks>>

\* What a hash directory holds: one file (its suffix), whose metadata records
\* Content-Length clen and ETag etag, and whose content reads as the chunks
\* (each chunk given by its length).
ObjKinds ==
    { [suffix |-> ".ts",   chunks |-> <<>>,     clen |-> 0, etag |-> MD5(<<>>)],      \* tombstone
      [suffix |-> ".data", chunks |-> <<>>,     clen |-> 0, etag |-> MD5(<<>>)],      \* sound, empty
      [suffix |-> ".data", chunks |-> <<1, 1>>, clen |-> 2, etag |-> MD5(<<1, 1>>)],  \* sound
      [suffix |-> ".data", chunks |-> <<1>>,    clen |-> 2, etag |-> MD5(<<1, 1>>)],  \* truncated
      [suffix |-> ".data", chunks |-> <<>>,     clen |-> 1, etag |-> MD5(<<1>>)],     \* truncated to nothing
      [suffix |-> ".data", chunks |-> <<1, 1>>, clen |-> 2, etag |-> MD5(<<2>>)],     \* corrupt content
      [suffix |-> ".data", chunks |-> <<>>,     clen |-> 0, etag |-> MD5(<<1>>)] }    \* wrong ETag, empty

\* What can go wrong, in one object_audit call, in the collaborators it calls.
Faults == {"none", "unreadable", "noname", "badname", "diskfile_raises",
           "deleted", "getsize_raises", "clen_bad", "read_raises"}

\* What can go wrong in the quarantine action.
QFaults == {"none", "invalidate_hash", "renamer"}

RECURSIVE SumSeq(_)
SumSeq(s) == IF s = <<>> THEN 0 ELSE Head(s) + SumSeq(Tail(s))

\* os.path.getsize(df.data_file)
GetSize(kind) == SumSeq(kind.chunks)

\* swift.common.utils.ratelimit_sleep: the accumulator advanced by the time
\* the unit just consumed is allowed (one tick per unit at the modelled rate).
ratelimit_sleep(running_time, incr_by) == running_time + incr_by

\* AuditorWorker.__init__
NewWorker(zero_byte_only_at_fps) ==
    [ auditor_type          |-> IF zero_byte_only_at_fps # 0 THEN "ZBF" ELSE "ALL",
      zero_byte_only_at_fps |-> zero_byte_only_at_fps,
      bytes_running_time    |-> 0,
      bytes_processed       |-> 0,
      total_bytes_processed |-> 0,
      total_files_processed |-> 0,
      passes                |-> 0,
      quarantines           |-> 0,
      errors                |-> 0 ]

NoWorker == [auditor_type |-> "none"]
NoCall == [obj |-> 0]

\* A loop that adds the chunks to the counter of the window only.
StreamChunks_WindowOnly(w, chunks, n) ==
    [w EXCEPT !.bytes_processed =
        @ + SumSeq(SubSeq(chunks, 1, IF n < Len(chunks) THEN n ELSE Len(chunks)))]

\* The loop "for chunk in df" of object_audit, over the first n chunks.
RECURSIVE StreamChunks(_, _, _)
StreamChunks(w, chunks, n) ==
    IF n = 0 \/ chunks = <<>> THEN w
    ELSE StreamChunks(
            [w EXCEPT !.bytes_running_time = ratelimit_sleep(@, Head(chunks)),
                      !.bytes_processed = @ + Head(chunks),
                      !.total_bytes_processed = @ + Head(chunks)],
            Tail(chunks), n - 1)

Min(a, b) == IF a < b THEN a ELSE b

\* Variants of the checks of object_audit, each with one slip.
ReadMetadataHandler_Plain == "Exception"
SizeDiffers_Never(kind) == FALSE
ZeroByteSkip_Never(w, kind) == FALSE
ETagDiffers_Never(kind) == FALSE

\* What the except clause around read_metadata raises.
ReadMetadataHandler == "AuditException"

\* obj_size != int(df.metadata['Content-Length'])
SizeDiffers(kind) == GetSize(kind) # kind.clen

\* self.zero_byte_only_at_fps and obj_size
ZeroByteSkip(w, kind) == w.zero_byte_only_at_fps # 0 /\ GetSize(kind) # 0

\* etag != df.metadata['ETag']
ETagDiffers(kind) == MD5(kind.chunks) # kind.etag

\* The try block of object_audit: how it ends ("skip": a bare return,
\* "pass": it falls through, "AuditException" or "Exception": what is raised)
\* and the worker after it.  present: the file is still at its path.
TryBlock(w, kind, present, fault) ==
    IF kind.suffix # ".data" THEN [end |-> "skip", w |-> w]
    ELSE IF ~present \/ fault \in {"unreadable", "noname"}
        THEN [end |-> ReadMetadataHandler, w |-> w]
    ELSE IF fault = "badname" THEN [end |-> "Exception", w |-> w]
    ELSE IF fault = "diskfile_raises" THEN [end |-> "Exception", w |-> w]
    ELSE IF fault = "deleted" THEN [end |-> "skip", w |-> w]
    ELSE IF fault \in {"getsize_raises", "clen_bad"} THEN [end |-> "Exception", w |-> w]
    ELSE IF SizeDiffers(kind) THEN [end |-> "AuditException", w |-> w]
    ELSE IF ZeroByteSkip(w, kind) THEN [end |-> "skip", w |-> w]
    ELSE IF fault = "read_raises"
        THEN [end |-> "Exception",
              w |-> StreamChunks(w, kind.chunks, Min(1, Len(kind.chunks)))]
    ELSE IF ETagDiffers(kind)
        THEN [end |-> "AuditException",
              w |-> StreamChunks(w, kind.chunks, Len(kind.chunks))]
    ELSE [end |-> "pass", w |-> StreamChunks(w, kind.chunks, Len(kind.chunks))]

\* The except clauses and the last line of object_audit: the counter each
\* ending increments.
Count(r) ==
    CASE r.end = "AuditException" -> [r.w EXCEPT !.quarantines = @ + 1]
      [] r.end = "Exception"      -> [r.w EXCEPT !.errors = @ + 1]
      [] r.end = "pass"           -> [r.w EXCEPT !.passes = @ + 1]
      [] OTHER                    -> r.w

\* A walker that goes through the quarantined directories as well.
Ahead_All(p) == {o \in Objects : o > cursor[p]}

\* The locations the walker of p has still to yield: the directories beyond
\* its cursor that are in the objects tree now.
Ahead(p) == {o \in Objects : o > cursor[p] /\ place[o] = "orig"}

NextLoc(p) == CHOOSE o \in Ahead(p) : \A o2 \in Ahead(p) : o <= o2

\* The values the zero_byte_fps option is given in the model.
FpsOptions == {0, 200}

\* The contents a tree scanned by two processes is given in the model.
SharedKinds ==
    {k \in ObjKinds : k.suffix = ".data" /\ k.chunks # <<1>> /\ k.etag # MD5(<<1>>)}

\* Started by run_once, or by run_forever with a zero_byte_fps option, the
\* daemon is one process; started by run_forever without one, it forks.
AuditorInit ==
    /\ entry \in {"run_once", "run_forever"}
    /\ kw \in [Procs -> FpsOptions]
    /\ kw["child"] = 0
    /\ IF entry = "run_forever" /\ kw["parent"] = 0
       THEN /\ disk \in [1..NumShared -> SharedKinds]
            /\ conf_zero_byte_fps \in {0, 50}
       ELSE /\ disk \in [1..NumObjects -> ObjKinds]
            /\ conf_zero_byte_fps = 50
    /\ place = [o \in DOMAIN disk |-> "orig"]
    /\ pc = [p \in Procs |-> IF p = "parent" THEN entry ELSE "unborn"]
    /\ worker = [p \in Procs |-> NoWorker]
    /\ cursor = [p \in Procs |-> 0]
    /\ call = [p \in Procs |-> NoCall]
    /\ exc = [p \in Procs |-> "none"]
    /\ renames = [p \in Procs |-> 0]

\* run_forever, to the loop: with a zero_byte_fps option only the caller
\* runs; without one it forks, and the caller (to which fork returns the
\* child's pid) passes zero_byte_fps to run_once while the child passes none.
RunForever ==
    /\ pc["parent"] = "run_forever"
    /\ LET zbo_fps == kw["parent"]
           parent == IF zbo_fps # 0 THEN [q \in Procs |-> TRUE]
                     ELSE [q \in Procs |-> q = "parent"]
       IN  /\ kw' = [q \in Procs |->
                        IF parent[q]
                        THEN (IF zbo_fps # 0 THEN zbo_fps ELSE conf_zero_byte_fps)
                        ELSE 0]
           /\ pc' = [q \in Procs |->
                        IF q = "parent" \/ zbo_fps = 0 THEN "run_once" ELSE "unborn"]
    /\ UNCHANGED <<disk, place, entry, conf_zero_byte_fps, worker, cursor, call, exc,
                   renames,
                   codec>>

\* run_once, to the first line of audit_all_objects: a fresh worker.
RunOnce(p) ==
    /\ pc[p] = "run_once"
    /\ worker' = [worker EXCEPT ![p] = NewWorker(kw[p])]
    /\ cursor' = [cursor EXCEPT ![p] = 0]
    /\ renames' = [renames EXCEPT ![p] = 0]
    /\ pc' = [pc EXCEPT ![p] = "walk"]
    /\ UNCHANGED <<disk, place, entry, conf_zero_byte_fps, kw, call, exc, codec>>

\* The walker yields the next location and object_audit is called with it.
Yield(p) ==
    /\ pc[p] = "walk"
    /\ Ahead(p) # {}
    /\ cursor' = [cursor EXCEPT ![p] = NextLoc(p)]
    /\ call' = [call EXCEPT ![p] =
                    [obj |-> NextLoc(p), pre |-> worker[p], preRenames |-> renames[p],
                     fault |-> "none", present |-> TRUE, end |-> "called"]]
    /\ pc' = [pc EXCEPT ![p] = "audit"]
    /\ UNCHANGED <<disk, place, entry, conf_zero_byte_fps, kw, worker, exc, renames,
                   codec>>

\* object_audit from its first line to the return, or to the quarantine
\* action of the AuditException clause.
ObjectAudit(p, fault) ==
    /\ pc[p] = "audit"
    /\ LET o == call[p].obj
           r == TryBlock(worker[p], disk[o], place[o] = "orig", fault)
       IN  /\ worker' = [worker EXCEPT ![p] = Count(r)]
           /\ call' = [call EXCEPT ![p].fault = fault,
                                   ![p].present = (place[o] = "orig"),
                                   ![p].end = r.end]
           /\ pc' = [pc EXCEPT ![p] =
                        IF r.end = "AuditException" THEN "quarantine" ELSE "returned"]
    /\ UNCHANGED <<disk, place, entry, conf_zero_byte_fps, kw, cursor, exc, renames,
                   codec>>

\* swift.common.utils.renamer on a directory: it raises when the
\* directory is no longer there, or when the rename itself fails.
RenamerRaises(o, qfault) == place[o] # "orig" \/ qfault = "renamer"

\* The quarantine action: invalidate_hash, then renamer, then return.  What
\* either raises is raised inside an except clause, and leaves object_audit.
Quarantine(p, qfault) ==
    /\ pc[p] = "quarantine"
    /\ LET o == call[p].obj
       IN  IF qfault = "invalidate_hash" \/ RenamerRaises(o, qfault)
           THEN /\ pc' = [pc EXCEPT ![p] = "dead"]
                /\ exc' = [exc EXCEPT ![p] = "object_audit"]
                /\ call' = [call EXCEPT ![p].end = "raised"]
                /\ UNCHANGED <<place, renames>>
           ELSE /\ place' = [place EXCEPT ![o] = "quar"]
                /\ renames' = [renames EXCEPT ![p] = @ + 1]
                /\ pc' = [pc EXCEPT ![p] = "returned"]
                /\ call' = [call EXCEPT ![p].end = "quarantined"]
                /\ exc' = exc
    /\ UNCHANGED <<disk, entry, conf_zero_byte_fps, kw, worker, cursor, codec>>

\* The rest of the loop body of audit_all_objects: the file counter, and the
\* report when log_time has gone by.
LoopTail(p, report) ==
    /\ pc[p] = "returned"
    /\ LET w == [worker[p] EXCEPT !.total_files_processed = @ + 1]
       IN  worker' = [worker EXCEPT ![p] =
                IF report
                THEN [w EXCEPT !.passes = 0, !.quarantines = 0,
                               !.errors = 0, !.bytes_processed = 0]
                ELSE w]
    /\ renames' = [renames EXCEPT ![p] = IF report THEN 0 ELSE @]
    /\ call' = [call EXCEPT ![p] = NoCall]
    /\ pc' = [pc EXCEPT ![p] = "walk"]
    /\ UNCHANGED <<disk, place, entry, conf_zero_byte_fps, kw, cursor, exc, codec>>

\* The walker is exhausted: the summary, with its rates over the elapsed
\* time, and the return to run_once and its caller.
EndPass(p, elapsed) ==
    /\ pc[p] = "walk"
    /\ Ahead(p) = {}
    /\ IF elapsed = 0
       THEN /\ pc' = [pc EXCEPT ![p] = "dead"]
            /\ exc' = [exc EXCEPT ![p] = "audit_all_objects"]
       ELSE /\ pc' = [pc EXCEPT ![p] = IF entry = "run_once" THEN "done" ELSE "sleep"]
            /\ exc' = exc
    /\ UNCHANGED <<disk, place, entry, conf_zero_byte_fps, kw, worker, cursor, call,
                   renames,
                   codec>>

\* _sleep, and the loop of run_forever goes round.
Sleep(p) ==
    /\ pc[p] = "sleep"
    /\ pc' = [pc EXCEPT ![p] = "run_once"]
    /\ UNCHANGED <<disk, place, entry, conf_zero_byte_fps, kw, worker, cursor, call, exc,
                   renames,
                   codec>>

AuditorNext ==
    \/ RunForever
    \/ \E p \in Procs : RunOnce(p)
    \/ \E p \in Procs : Yield(p)
    \/ \E p \in Procs, fault \in Faults : ObjectAudit(p, fault)
    \/ \E p \in Procs, qfault \in QFaults : Quarantine(p, qfault)
    \/ \E p \in Procs, report \in BOOLEAN : LoopTail(p, report)
    \/ \E p \in Procs, elapsed \in {0, 1} : EndPass(p, elapsed)
    \/ \E p \in Procs : Sleep(p)

vars == <<auditorVars, codec>>

\* No crypto_utils function has been called.
Idle == [op |-> "idle"]

Init == AuditorInit /\ codec = Idle

Next == AuditorNext

Spec == Init /\ [][Next]_vars

(***************************************************************************)
(* Properties of the auditor.                                              *)
(***************************************************************************)

\* The object_audit call of p has got past its try block: it has returned,
\* or is in (or was ended by) the quarantine action.
Ended(p) == call[p].obj # 0 /\ call[p].end # "called"

\* The file the call of p was handed.
Kind(p) == disk[call[p].obj]

\* The counters of the worker of p before the call in call[p].
Pre(p) == call[p].pre

\* The call of p failed to read the metadata of a .data location.
MetadataReadFailed(p) ==
    /\ Ended(p)
    /\ Kind(p).suffix = ".data"
    /\ (~call[p].present \/ call[p].fault \in {"unreadable", "noname"})

\* The call of p read the metadata and opened the disk file of a .data location.
Opened(p) ==
    /\ Ended(p)
    /\ Kind(p).suffix = ".data"
    /\ call[p].present
    /\ call[p].fault \in {"none", "read_raises"}

BytesUntouched(p) ==
    /\ worker[p].bytes_processed = Pre(p).bytes_processed
    /\ worker[p].total_bytes_processed = Pre(p).total_bytes_processed
    /\ worker[p].bytes_running_time = Pre(p).bytes_running_time

C2_NothingLeavesObjectAudit ==
    \A p \in Procs : exc[p] # "object_audit"

\* The directory p was handed a location in has been renamed away by the
\* other process: it is in quarantine, and p did not move it.
Raced(p) ==
    /\ call[p].obj # 0
    /\ place[call[p].obj] = "quar"
    /\ call[p].end # "quarantined"

\* C3: with a full-audit and a zero-byte process, a process handed a
\* location in a directory that the other process quarantines does not
\* terminate.
C3_RaceEndsNoProcess ==
    \A p \in Procs :
        (/\ Raced(p)
         /\ {worker[q].auditor_type : q \in Procs} = {"ALL", "ZBF"}
         /\ call[p].end # "called" => call[p].fault = "none") =>
            pc[p] # "dead"

FullyStreamed(p) ==
    /\ Opened(p)
    /\ call[p].fault = "none"
    /\ GetSize(Kind(p)) = Kind(p).clen
    /\ worker[p].total_bytes_processed
            = Pre(p).total_bytes_processed + GetSize(Kind(p))
    /\ (worker[p].zero_byte_only_at_fps = 0 \/ GetSize(Kind(p)) = 0)

\* C5: after the content is streamed, a digest that differs from the ETag
\* counts a quarantine and nothing else; an equal digest counts a pass and
\* nothing else, and the call does not move the object.
C5_DigestDecides ==
    \A p \in Procs : FullyStreamed(p) =>
        IF MD5(Kind(p).chunks) # Kind(p).etag
        THEN /\ worker[p].quarantines = Pre(p).quarantines + 1
             /\ worker[p].passes = Pre(p).passes
             /\ worker[p].errors = Pre(p).errors
             /\ pc[p] = "returned" => place[call[p].obj] = "quar"
        ELSE /\ worker[p].passes = Pre(p).passes + 1
             /\ worker[p].errors = Pre(p).errors
             /\ worker[p].quarantines = Pre(p).quarantines
             /\ pc[p] = "returned"
             /\ renames[p] = call[p].preRenames
             /\ pc["child"] = "unborn" => place[call[p].obj] = "orig"

C5_Witness ==
    \E p \in Procs :
        /\ FullyStreamed(p)
        /\ MD5(Kind(p).chunks) # Kind(p).etag
        /\ worker[p].bytes_processed > Pre(p).bytes_processed
        /\ pc[p] = "returned"

\* C6 as stated: a zero-byte-only worker changes none of passes, quarantines
\* and errors in a call on an object whose size is not zero.
C6_NonEmptySkippedInZeroByteMode ==
    \A p \in Procs :
        (Opened(p) /\ worker[p].zero_byte_only_at_fps # 0 /\ GetSize(Kind(p)) # 0) =>
            /\ worker[p].passes = Pre(p).passes
            /\ worker[p].quarantines = Pre(p).quarantines
            /\ worker[p].errors = Pre(p).errors

\* C6 as amended: a zero-byte-only worker skips an object whose size is not
\* zero and equals its Content-Length: the call returns with passes,
\* quarantines and errors (and the byte counters) as before.
C6_SoundSizeNonEmptySkipped ==
    \A p \in Procs :
        (/\ Opened(p)
         /\ worker[p].zero_byte_only_at_fps # 0
         /\ GetSize(Kind(p)) # 0
         /\ GetSize(Kind(p)) = Kind(p).clen) =>
            /\ worker[p].passes = Pre(p).passes
            /\ worker[p].quarantines = Pre(p).quarantines
            /\ worker[p].errors = Pre(p).errors
            /\ BytesUntouched(p)
            /\ pc[p] = "returned"
            /\ renames[p] = call[p].preRenames

C6_Witness ==
    \E p \in Procs :
        /\ Opened(p)
        /\ worker[p].zero_byte_only_at_fps # 0
        /\ GetSize(Kind(p)) # 0
        /\ GetSize(Kind(p)) = Kind(p).clen
        /\ MD5(Kind(p).chunks) # Kind(p).etag
        /\ pc[p] = "returned"

(***************************************************************************)
(* PART II.  The crypto-meta codec of crypto_utils.py.                     *)
(*                                                                         *)
(* A str is the sequence of its bytes (0..255), a unicode the sequence of  *)
(* its code points.  A Python value is a record: t its type, s its         *)
(* characters (str, unicode), n its number (int, bool), items its members  *)
(* (list: values; dict: <<key, value>> pairs in order).                     *)
(***************************************************************************)

\* The printable ASCII characters, from code 32 on (three of them by name).
Printable ==
    << " ", "!", "QUOTE", "#", "$", "%", "&", "'", "(", ")", "*", "+", ",", "-", ".", "/",
       "0", "1", "2", "3", "4", "5", "6", "7", "8", "9", ":", ";", "<", "=", ">", "?",
       "@", "A", "B", "C", "D", "E", "F", "G", "H", "I", "J", "K", "L", "M", "N", "O",
       "P", "Q", "R", "S", "T", "U", "V", "W", "X", "Y", "Z", "[", "BACKSLASH", "]", "^", "_",
       "BACKTICK", "a", "b", "c", "d", "e", "f", "g", "h", "i", "j", "k", "l", "m", "n", "o",
       "p", "q", "r", "s", "t", "u", "v", "w", "x", "y", "z", "{", "|", "}", "~" >>

OrdTable == [i \in 1..Len(Printable) |-> i + 31]

\* ord(c) of a printable character.
Ord(c) == OrdTable[CHOOSE i \in 1..Len(Printable) : Printable[i] = c]

\* The str written as the tuple of its characters.
S(chars) == [i \in 1..Len(chars) |-> Ord(chars[i])]

PyStr(s)     == [t |-> "str",     s |-> s,    n |-> 0, items |-> <<>>]
PyUnicode(s) == [t |-> "unicode", s |-> s,    n |-> 0, items |-> <<>>]
PyInt(n)     == [t |-> "int",     s |-> <<>>, n |-> n, items |-> <<>>]
PyBool(b)    == [t |-> "bool",    s |-> <<>>, n |-> IF b THEN 1 ELSE 0, items |-> <<>>]
PyNone       == [t |-> "None",    s |-> <<>>, n |-> 0, items |-> <<>>]
PyList(xs)   == [t |-> "list",    s |-> <<>>, n |-> 0, items |-> xs]
PyDict(kvs)  == [t |-> "dict",    s |-> <<>>, n |-> 0, items |-> kvs]

\* How a call ends: it returns val, or raises an exception of class exc.
Return(v) == [exc |-> "none", val |-> v]
Raise(e)  == [exc |-> e, val |-> PyNone]

Range(f) == {f[i] : i \in DOMAIN f}

IsDigit(c) == c \in 48..57
IsAlpha(c) == c \in 65..90 \/ c \in 97..122

\* str.startswith
StartsWith(s, prefix) ==
    Len(s) >= Len(prefix) /\ SubSeq(s, 1, Len(prefix)) = prefix

\* The characters str.strip() removes.
Whitespace == {9, 10, 11, 12, 13, 32}

\* str.strip()
RECURSIVE LStrip(_)
LStrip(s) == IF s # <<>> /\ Head(s) \in Whitespace THEN LStrip(Tail(s)) ELSE s

RECURSIVE RStrip(_)
RStrip(s) ==
    IF s # <<>> /\ s[Len(s)] \in Whitespace THEN RStrip(SubSeq(s, 1, Len(s) - 1)) ELSE s

Strip(s) == RStrip(LStrip(s))

\* s.rsplit(sep, 1) for a one-character sep: the list of parts.
RSplit1(s, sep) ==
    LET at == {i \in 1..Len(s) : s[i] = sep}
    IN  IF at = {} THEN <<s>>
        ELSE LET last == CHOOSE i \in at : \A j \in at : j <= i
             IN  <<SubSeq(s, 1, last - 1), SubSeq(s, last + 1, Len(s))>>

(***************************************************************************)
(* urllib.quote_plus and urllib.unquote_plus.                              *)
(***************************************************************************)

HexDigits == S(<<"0", "1", "2", "3", "4", "5", "6", "7", "8", "9",
                 "A", "B", "C", "D", "E", "F">>)

\* A quoting that leaves the semicolon as it is.
AlwaysSafe_Semicolon(c) ==
    IsAlpha(c) \/ IsDigit(c) \/ c \in Range(S(<<"_", ".", "-", ";">>))

\* The characters quote never escapes: letters, digits and "_.-".
AlwaysSafe(c) == IsAlpha(c) \/ IsDigit(c) \/ c \in Range(S(<<"_", ".", "-">>))

\* '%%%02X' % c
PercentEscape(c) == <<Ord("%"), HexDigits[(c \div 16) + 1], HexDigits[(c % 16) + 1]>>

\* urllib.quote_plus(s): safe characters as they are, the space as "+", every
\* other byte as %XX.
RECURSIVE quote_plus(_)
quote_plus(s) ==
    IF s = <<>> THEN <<>>
    ELSE (IF AlwaysSafe(Head(s)) THEN <<Head(s)>>
          ELSE IF Head(s) = Ord(" ") THEN <<Ord("+")>>
          ELSE PercentEscape(Head(s)))
         \o quote_plus(Tail(s))

\* The value of a hexadecimal digit, -1 of any other character.
HexValue(c) ==
    IF IsDigit(c) THEN c - 48
    ELSE IF c \in 65..70 THEN c - 55
    ELSE IF c \in 97..102 THEN c - 87
    ELSE -1

\* urllib.unquote(s): %XX with two hexadecimal digits is the byte, any other
\* "%" stays.
RECURSIVE unquote(_)
unquote(s) ==
    IF s = <<>> THEN <<>>
    ELSE IF /\ Head(s) = Ord("%")
            /\ Len(s) >= 3
            /\ HexValue(s[2]) >= 0
            /\ HexValue(s[3]) >= 0
        THEN <<16 * HexValue(s[2]) + HexValue(s[3])>> \o unquote(SubSeq(s, 4, Len(s)))
    ELSE <<Head(s)>> \o unquote(Tail(s))

\* urllib.unquote_plus(s): s.replace('+', ' '), then unquote.
unquote_plus(s) ==
    unquote([i \in 1..Len(s) |-> IF s[i] = Ord("+") THEN Ord(" ") ELSE s[i]])

(***************************************************************************)
(* base64.b64encode and base64.b64decode.                                  *)
(***************************************************************************)

B64Alphabet ==
    S(<< "A", "B", "C", "D", "E", "F", "G", "H", "I", "J", "K", "L", "M", "N", "O", "P",
         "Q", "R", "S", "T", "U", "V", "W", "X", "Y", "Z", "a", "b", "c", "d", "e", "f",
         "g", "h", "i", "j", "k", "l", "m", "n", "o", "p", "q", "r", "s", "t", "u", "v",
         "w", "x", "y", "z", "0", "1", "2", "3", "4", "5", "6", "7", "8", "9", "+", "/" >>)

B64Char(v) == B64Alphabet[v + 1]

\* The value of a character of the alphabet, -1 of any other character.
B64Value(c) ==
    IF c \in Range(B64Alphabet)
    THEN (CHOOSE i \in 1..Len(B64Alphabet) : B64Alphabet[i] = c) - 1
    ELSE -1

\* base64.b64encode(s): three bytes to four characters, the rest padded with "=".
RECURSIVE b64encode(_)
b64encode(s) ==
    IF s = <<>> THEN <<>>
    ELSE IF Len(s) = 1
        THEN <<B64Char(s[1] \div 4), B64Char((s[1] % 4) * 16), Ord("="), Ord("=")>>
    ELSE IF Len(s) = 2
        THEN <<B64Char(s[1] \div 4),
               B64Char((s[1] % 4) * 16 + s[2] \div 16),
               B64Char((s[2] % 16) * 4),
               Ord("=")>>
    ELSE <<B64Char(s[1] \div 4),
           B64Char((s[1] % 4) * 16 + s[2] \div 16),
           B64Char((s[2] % 16) * 4 + s[3] \div 64),
           B64Char(s[3] % 64)>>
         \o b64encode(SubSeq(s, 4, Len(s)))

\* binascii_find_valid(s, 1): the second character of s that is "=" or of the
\* alphabet, -1 if there is none.
FindValid1(s) ==
    LET valid == {i \in 1..Len(s) : s[i] = Ord("=") \/ B64Value(s[i]) >= 0}
        after == {i \in valid : \E j \in valid : j < i}
    IN  IF after = {} THEN -1
        ELSE s[CHOOSE i \in after : \A j \in after : i <= j]

\* The loop of binascii.a2b_base64 over s, from state st: quad_pos, the
\* bits left over (leftchar, leftbits) and the bytes decoded so far.
RECURSIVE A2bLoop(_, _)
A2bLoop(s, st) ==
    IF s = <<>> THEN st
    ELSE LET c == Head(s) IN
         IF c > 127 \/ c \in {13, 10, 32} THEN A2bLoop(Tail(s), st)
         ELSE IF c = Ord("=")
            THEN (IF st.quad_pos < 2 \/ (st.quad_pos = 2 /\ FindValid1(s) # Ord("="))
                  THEN A2bLoop(Tail(s), st)
                  ELSE [st EXCEPT !.leftbits = 0])
         ELSE IF B64Value(c) < 0 THEN A2bLoop(Tail(s), st)
         ELSE LET leftchar == st.leftchar * 64 + B64Value(c)
                  leftbits == st.leftbits + 6
                  quad_pos == (st.quad_pos + 1) % 4
              IN  IF leftbits >= 8
                  THEN A2bLoop(Tail(s),
                        [quad_pos |-> quad_pos,
                         leftbits |-> leftbits - 8,
                         leftchar |-> leftchar % (2 ^ (leftbits - 8)),
                         out |-> Append(st.out, leftchar \div (2 ^ (leftbits - 8)))])
                  ELSE A2bLoop(Tail(s),
                        [quad_pos |-> quad_pos, leftbits |-> leftbits,
                         leftchar |-> leftchar, out |-> st.out])

\* base64.b64decode(v) of a Python value: the bytes, or TypeError (not a
\* string, or binascii's "Incorrect padding"), or the UnicodeEncodeError of
\* a unicode that is not ASCII.
b64decode(v) ==
    IF v.t \notin {"str", "unicode"} THEN Raise("TypeError")
    ELSE IF v.t = "unicode" /\ \E i \in 1..Len(v.s) : v.s[i] > 127
        THEN Raise("UnicodeEncodeError")
    ELSE LET st == A2bLoop(v.s, [quad_pos |-> 0, leftbits |-> 0, leftchar |-> 0,
                                 out |-> <<>>])
         IN  IF st.leftbits # 0 THEN Raise("TypeError") ELSE Return(PyStr(st.out))

(***************************************************************************)
(* json.dumps and json.loads, for dicts of str, int, bool and None.        *)
(***************************************************************************)

LowerHex == S(<<"0", "1", "2", "3", "4", "5", "6", "7", "8", "9",
                "a", "b", "c", "d", "e", "f">>)

\* The escape json.dumps writes for a character that is a quote, a
\* backslash or not in " ".."~".
JsonEscape(c) ==
    CASE c = Ord("QUOTE")     -> <<Ord("BACKSLASH"), Ord("QUOTE")>>
      [] c = Ord("BACKSLASH") -> <<Ord("BACKSLASH"), Ord("BACKSLASH")>>
      [] c = 8  -> <<Ord("BACKSLASH"), Ord("b")>>
      [] c = 12 -> <<Ord("BACKSLASH"), Ord("f")>>
      [] c = 10 -> <<Ord("BACKSLASH"), Ord("n")>>
      [] c = 13 -> <<Ord("BACKSLASH"), Ord("r")>>
      [] c = 9  -> <<Ord("BACKSLASH"), Ord("t")>>
      [] OTHER  -> <<Ord("BACKSLASH"), Ord("u"), Ord("0"), Ord("0"),
                     LowerHex[(c \div 16) + 1], LowerHex[(c % 16) + 1]>>

RECURSIVE JsonChars(_)
JsonChars(s) ==
    IF s = <<>> THEN <<>>
    ELSE (IF Head(s) \in 32..126 /\ Head(s) \notin {Ord("QUOTE"), Ord("BACKSLASH")}
          THEN <<Head(s)>> ELSE JsonEscape(Head(s)))
         \o JsonChars(Tail(s))

\* str(n) of an int.
RECURSIVE Digits(_)
Digits(n) == IF n < 10 THEN <<48 + n>> ELSE Append(Digits(n \div 10), 48 + (n % 10))

IntToStr(n) == IF n < 0 THEN <<Ord("-")>> \o Digits(-n) ELSE Digits(n)

\* json.dumps of a scalar (a str of ASCII characters, an int, a bool, None).
JsonScalar(v) ==
    CASE v.t \in {"str", "unicode"} -> <<Ord("QUOTE")>> \o JsonChars(v.s) \o <<Ord("QUOTE")>>
      [] v.t = "int"  -> IntToStr(v.n)
      [] v.t = "bool" -> IF v.n = 1 THEN S(<<"t", "r", "u", "e">>)
                         ELSE S(<<"f", "a", "l", "s", "e">>)
      [] v.t = "None" -> S(<<"n", "u", "l", "l">>)

\* json.dumps of the dict d (a function from keys to scalars), its items
\* written in the order the dict iterates in: order lists the keys.
RECURSIVE JsonItems(_, _)
JsonItems(d, order) ==
    IF order = <<>> THEN <<>>
    ELSE JsonScalar(PyStr(Head(order))) \o S(<<":", " ">>) \o JsonScalar(d[Head(order)])
         \o (IF Len(order) > 1 THEN S(<<",", " ">>) ELSE <<>>)
         \o JsonItems(d, Tail(order))

json_dumps(d, order) == S(<<"{">>) \o JsonItems(d, order) \o S(<<"}">>)

\* What a failed parse returns.
NoParse == [ok |-> FALSE, v |-> PyNone, i |-> 0]

Parsed(v, i) == [ok |-> TRUE, v |-> v, i |-> i]

\* The first position from i on that holds no JSON whitespace.
RECURSIVE SkipWs(_, _)
SkipWs(s, i) ==
    IF i <= Len(s) /\ s[i] \in {32, 9, 10, 13} THEN SkipWs(s, i + 1) ELSE i

\* The text at position i of s is lit.
At(s, i, lit) == i + Len(lit) - 1 <= Len(s) /\ SubSeq(s, i, i + Len(lit) - 1) = lit

\* The character a backslash escape stands for, -1 if there is no such escape.
Unescape(c) ==
    CASE c = Ord("QUOTE")     -> Ord("QUOTE")
      [] c = Ord("BACKSLASH") -> Ord("BACKSLASH")
      [] c = Ord("/") -> Ord("/")
      [] c = Ord("b") -> 8
      [] c = Ord("f") -> 12
      [] c = Ord("n") -> 10
      [] c = Ord("r") -> 13
      [] c = Ord("t") -> 9
      [] OTHER -> -1

\* A JSON string from the character after its opening quote: a unicode.
RECURSIVE ScanString(_, _, _)
ScanString(s, i, acc) ==
    IF i > Len(s) THEN NoParse
    ELSE IF s[i] = Ord("QUOTE") THEN Parsed(PyUnicode(acc), i + 1)
    ELSE IF s[i] < 32 THEN NoParse
    ELSE IF s[i] # Ord("BACKSLASH") THEN ScanString(s, i + 1, Append(acc, s[i]))
    ELSE IF i + 1 > Len(s) THEN NoParse
    ELSE IF s[i + 1] = Ord("u")
        THEN (IF i + 5 <= Len(s) /\ \A k \in 2..5 : HexValue(s[i + k]) >= 0
              THEN ScanString(s, i + 6,
                        Append(acc, 4096 * HexValue(s[i + 2]) + 256 * HexValue(s[i + 3])
                                    + 16 * HexValue(s[i + 4]) + HexValue(s[i + 5])))
              ELSE NoParse)
    ELSE IF Unescape(s[i + 1]) >= 0
        THEN ScanString(s, i + 2, Append(acc, Unescape(s[i + 1])))
    ELSE NoParse

\* The value of the digits of s from i on, after the value n of those before.
RECURSIVE ScanDigits(_, _, _)
ScanDigits(s, i, n) ==
    IF i <= Len(s) /\ IsDigit(s[i]) THEN ScanDigits(s, i + 1, 10 * n + (s[i] - 48))
    ELSE [n |-> n, i |-> i]

\* A JSON number without fraction and exponent: an int.  (A fraction or an
\* exponent makes a float, which the model has not: the parse stops before it.)
ScanNumber(s, i) ==
    LET j == IF s[i] = Ord("-") THEN i + 1 ELSE i
        sign == IF s[i] = Ord("-") THEN -1 ELSE 1
    IN  IF j > Len(s) \/ ~IsDigit(s[j]) THEN NoParse
        ELSE IF s[j] = Ord("0") THEN Parsed(PyInt(0), j + 1)
        ELSE LET d == ScanDigits(s, j, 0) IN Parsed(PyInt(sign * d.n), d.i)

RECURSIVE ScanValue(_, _)
RECURSIVE ScanMembers(_, _, _)
RECURSIVE ScanElements(_, _, _)

\* The members of a JSON object from its first key on.
ScanMembers(s, i, acc) ==
    IF i > Len(s) \/ s[i] # Ord("QUOTE") THEN NoParse
    ELSE LET key == ScanString(s, i + 1, <<>>) IN
         IF ~key.ok THEN NoParse
         ELSE LET colon == SkipWs(s, key.i) IN
              IF colon > Len(s) \/ s[colon] # Ord(":") THEN NoParse
              ELSE LET val == ScanValue(s, SkipWs(s, colon + 1)) IN
                   IF ~val.ok THEN NoParse
                   ELSE LET next == SkipWs(s, val.i)
                            items == Append(acc, <<key.v, val.v>>)
                        IN  IF next > Len(s) THEN NoParse
                            ELSE IF s[next] = Ord("}") THEN Parsed(PyDict(items), next + 1)
                            ELSE IF s[next] = Ord(",")
                                THEN ScanMembers(s, SkipWs(s, next + 1), items)
                            ELSE NoParse

\* The elements of a JSON array from its first element on.
ScanElements(s, i, acc) ==
    LET val == ScanValue(s, i) IN
    IF ~val.ok THEN NoParse
    ELSE LET next == SkipWs(s, val.i)
             items == Append(acc, val.v)
         IN  IF next > Len(s) THEN NoParse
             ELSE IF s[next] = Ord("]") THEN Parsed(PyList(items), next + 1)
             ELSE IF s[next] = Ord(",") THEN ScanElements(s, SkipWs(s, next + 1), items)
             ELSE NoParse

\* scan_once of the JSON decoder: the value that starts at position i.
ScanValue(s, i) ==
    IF i > Len(s) THEN NoParse
    ELSE IF s[i] = Ord("QUOTE") THEN ScanString(s, i + 1, <<>>)
    ELSE IF s[i] = Ord("{")
        THEN (LET j == SkipWs(s, i + 1) IN
              IF j <= Len(s) /\ s[j] = Ord("}") THEN Parsed(PyDict(<<>>), j + 1)
              ELSE ScanMembers(s, j, <<>>))
    ELSE IF s[i] = Ord("[")
        THEN (LET j == SkipWs(s, i + 1) IN
              IF j <= Len(s) /\ s[j] = Ord("]") THEN Parsed(PyList(<<>>), j + 1)
              ELSE ScanElements(s, j, <<>>))
    ELSE IF At(s, i, S(<<"n", "u", "l", "l">>)) THEN Parsed(PyNone, i + 4)
    ELSE IF At(s, i, S(<<"t", "r", "u", "e">>)) THEN Parsed(PyBool(TRUE), i + 4)
    ELSE IF At(s, i, S(<<"f", "a", "l", "s", "e">>)) THEN Parsed(PyBool(FALSE), i + 5)
    ELSE IF s[i] = Ord("-") \/ IsDigit(s[i]) THEN ScanNumber(s, i)
    ELSE NoParse

\* json.loads(s): the value, or ValueError when s is not one JSON document.
json_loads(s) ==
    LET r == ScanValue(s, SkipWs(s, 1)) IN
    IF ~r.ok THEN Raise("ValueError")
    ELSE IF SkipWs(s, r.i) # Len(s) + 1 THEN Raise("ValueError")
    ELSE Return(r.v)

(***************************************************************************)
(* crypto_utils.py: dump_crypto_meta, load_crypto_meta, append_crypto_meta *)
(* and extract_crypto_meta.  A crypto meta is a dict d from names (str) to *)
(* values, [t |-> "dict", d |-> ...]; None is NoMeta.                      *)
(***************************************************************************)

MetaDict(d) == [t |-> "dict", d |-> d]
NoMeta      == [t |-> "None", d |-> <<>>]

IV == S(<<"i", "v">>)

\* str(v): of a str itself, of an ASCII unicode its characters, of an int
\* its digits; UnicodeEncodeError of any other unicode.
StrOf(v) ==
    CASE v.t = "str"     -> Return(v)
      [] v.t = "unicode" -> IF \E i \in 1..Len(v.s) : v.s[i] > 127
                            THEN Raise("UnicodeEncodeError")
                            ELSE Return(PyStr(v.s))
      [] v.t = "int"     -> Return(PyStr(IntToStr(v.n)))
      [] v.t = "bool"    -> Return(PyStr(IF v.n = 1 THEN S(<<"T", "r", "u", "e">>)
                                         ELSE S(<<"F", "a", "l", "s", "e">>)))
      [] v.t = "None"    -> Return(PyStr(S(<<"N", "o", "n", "e">>)))
      [] v.t = "list" /\ v.items = <<>> -> Return(PyStr(S(<<"[", "]">>)))
      [] v.t = "dict" /\ v.items = <<>> -> Return(PyStr(S(<<"{", "}">>)))

\* load_crypto_meta without the cast of the values to str.
LoadedValue_NoCast(name, value) ==
    IF name.s = IV THEN b64decode(value) ELSE Return(value)

\* The value dump_crypto_meta writes for an item: base64 text for the iv.
DumpedValue(name, value) ==
    IF name = IV THEN PyUnicode(b64encode(value.s)) ELSE value

\* dump_crypto_meta(crypto_meta), the dict iterating in the given order.
dump_crypto_meta(crypto_meta, order) ==
    quote_plus(json_dumps([name \in DOMAIN crypto_meta.d |->
                                DumpedValue(name, crypto_meta.d[name])], order))

\* The value load_crypto_meta builds for an item of the decoded object.
LoadedValue(name, value) ==
    IF name.s = IV THEN b64decode(value) ELSE StrOf(value)

\* The exception classes load_crypto_meta catches (with their subclasses).
Caught == {"KeyError", "ValueError", "TypeError", "UnicodeEncodeError",
           "UnicodeDecodeError"}

\* The except clause of load_crypto_meta.
LoadRaises(e) == IF e \in Caught THEN Raise("EncryptionException") ELSE Raise(e)

\* The items of the dict json.loads returns: of a repeated name the last.
Kept(items) ==
    {i \in 1..Len(items) : \A j \in 1..Len(items) : j > i => items[j][1] # items[i][1]}

\* str(name) of the i-th item.
ItemName(items, i) == StrOf(items[i][1])

\* The exceptions the dict comprehension of load_crypto_meta meets.
ItemsRaised(items) ==
    {e \in {ItemName(items, i).exc : i \in Kept(items)}
            \cup {LoadedValue(items[i][1], items[i][2]).exc : i \in Kept(items)} :
        e # "none"}

\* The dict comprehension of load_crypto_meta over the items of the object.
LoadItems(items) ==
    IF ItemsRaised(items) # {}
    THEN LoadRaises(CHOOSE e \in ItemsRaised(items) : TRUE)
    ELSE Return(MetaDict(
            [k \in {ItemName(items, i).val.s : i \in Kept(items)} |->
                LET i == CHOOSE j \in Kept(items) : ItemName(items, j).val.s = k
                IN  LoadedValue(items[i][1], items[i][2]).val]))

\* load_crypto_meta after json.loads: .items() of what it returned.
LoadDocument(doc) ==
    IF doc.exc # "none" THEN LoadRaises(doc.exc)
    ELSE IF doc.val.t # "dict" THEN LoadRaises("AttributeError")
    ELSE LoadItems(doc.val.items)

\* load_crypto_meta(value)
load_crypto_meta(value) == LoadDocument(json_loads(unquote_plus(value)))

META_EQ == S(<<"m", "e", "t", "a", "=">>)

\* append_crypto_meta(value, crypto_meta): '%s; meta=%s'
append_crypto_meta(value, crypto_meta, order) ==
    value \o S(<<";", " ">>) \o META_EQ \o dump_crypto_meta(crypto_meta, order)

\* extract_crypto_meta once the crypto meta is loaded.
Extracted(value, loaded) ==
    IF loaded.exc # "none" THEN loaded
    ELSE Return([value |-> value, crypto_meta |-> loaded.val])

\* extract_crypto_meta after the split: value and param are the two parts.
ExtractParam(value, param) ==
    IF StartsWith(param, META_EQ)
    THEN Extracted(value, load_crypto_meta(SubSeq(param, 6, Len(param))))
    ELSE Return([value |-> value, crypto_meta |-> NoMeta])

\* extract_crypto_meta after value.rsplit(';', 1).
ExtractParts(value, parts) ==
    IF Len(parts) = 2
    THEN ExtractParam(parts[1], Strip(parts[2]))
    ELSE Return([value |-> value, crypto_meta |-> NoMeta])

\* extract_crypto_meta(value): the pair returned, or what load_crypto_meta raises.
extract_crypto_meta(value) == ExtractParts(value, RSplit1(value, Ord(";")))

(***************************************************************************)
(* The calls of the codec the model makes, and their arguments.            *)
(***************************************************************************)

\* Most pieces a value is put together from.
MaxTokens == 3
\* Most bytes of an iv.
MaxIvLen == 3

\* The pieces of the values extract_crypto_meta is called with.
Tokens ==
    { S(<<"a">>), S(<<";">>), S(<<" ">>), META_EQ,
      S(<<"f", "o", "o", "=", "b", "a", "r">>), S(<<"%", "7", "B", "%", "7", "D">>) }

RECURSIVE Concats(_)
Concats(n) ==
    IF n = 0 THEN {<<>>}
    ELSE LET shorter == Concats(n - 1)
         IN  shorter \cup {v \o t : v \in shorter, t \in Tokens}

\* The bytes of the ivs: 0, and 251 (whose base64 has "+" and "/").
IvBytes == {0, 251}

RECURSIVE BytesUpTo(_)
BytesUpTo(n) ==
    IF n = 0 THEN {<<>>}
    ELSE LET shorter == BytesUpTo(n - 1)
         IN  shorter \cup {Append(b, c) : b \in shorter, c \in IvBytes}

\* The names and the values of the other entries of a crypto meta.
ExtraNames == {S(<<"c", "i", "p", "h", "e", "r">>), S(<<"k">>)}

TextValues ==
    { PyStr(S(<<"A", "E", "S", "_", "C", "T", "R">>)),
      PyStr(S(<<"a", ";", " ", "m", "e", "t", "a", "=", "b">>)),
      PyStr(S(<<"QUOTE", "BACKSLASH", "+", "%", "2", "B", "/">>) \o <<10, 127>>) }

NumberValues == {PyInt(5), PyInt(-120)}

\* The iv of the crypto metas that have other entries.
SampleIv == PyStr(<<251, 251, 0>>)

\* The valid crypto metas: an iv alone, or an iv and other entries that are
\* JSON scalars.
ValidMetas ==
    { MetaDict([k \in {IV} |-> PyStr(b)]) : b \in BytesUpTo(MaxIvLen) }
    \cup
    UNION { { MetaDict([k \in {IV} \cup names |-> IF k = IV THEN SampleIv ELSE e[k]])
              : e \in [names -> TextValues \cup NumberValues] }
            : names \in SUBSET ExtraNames }

\* The orders a dict of the given names may iterate in.
Orders(names) ==
    {o \in [1..Cardinality(names) -> names] : \A k \in names : \E i \in DOMAIN o : o[i] = k}

\* Texts given to load_crypto_meta, as they are and percent-encoded.
Documents ==
    { S(<<"[", "]">>),
      S(<<"5">>),
      S(<<"n", "u", "l", "l">>),
      S(<<"QUOTE", "x", "QUOTE">>),
      S(<<"t", "r", "u", "e">>),
      S(<<"[", "1", ",", " ", "QUOTE", "a", "QUOTE", "]">>),
      S(<<"{", "}">>),
      S(<<"{">>),
      S(<<>>),
      S(<<"%">>),
      S(<<"{", "QUOTE", "i", "v", "QUOTE", ":", " ", "QUOTE", "Y", "Q", "=", "=",
        "QUOTE", "}">>),
      S(<<"{", "QUOTE", "i", "v", "QUOTE", ":", " ", "QUOTE", "a", "QUOTE", "}">>),
      S(<<"{", "QUOTE", "i", "v", "QUOTE", ":", " ", "5", "}">>),
      S(<<"{", "QUOTE", "k", "QUOTE", ":", " ", "5", "}">>),
      S(<<"{", "QUOTE", "k", "QUOTE", ":", " ", "QUOTE", "v", "QUOTE", ",", " ",
        "QUOTE", "k", "QUOTE", ":", " ", "QUOTE", "w", "QUOTE", "}">>),
      S(<<"{", "QUOTE", "k", "QUOTE", ":", " ", "n", "u", "l", "l", "}">>),
      S(<<"{", "QUOTE", "k", "QUOTE", ":", " ", "QUOTE", "v", "QUOTE", "}", " ",
        "x">>),
      S(<<" ", "{", "QUOTE", "i", "v", "QUOTE", ":", "QUOTE", "+", "/", "v", "7",
        "QUOTE", ",", " ", "QUOTE", "k", "QUOTE", " ", ":", " ", "QUOTE", "BACKSLASH",
        "u", "0", "0", "4", "1", "BACKSLASH", "n", "QUOTE", "}", " ">>),
      S(<<"{", "QUOTE", "k", "QUOTE", ":", " ", "QUOTE", "v", "QUOTE", ",", "}">>),
      S(<<"-">>),
      S(<<"0", "1">>),
      S(<<"{", "QUOTE", "k", "QUOTE", ":", " ", "[", "]", "}">>),
      S(<<"{", "QUOTE", "k", "QUOTE", ":", " ", "QUOTE", "BACKSLASH", "u", "0", "0",
        "e", "9", "QUOTE", "}">>) }

LoadInputs == Documents \cup {quote_plus(d) : d \in Documents}

\* The values append_crypto_meta is called with.
AppendValues ==
    { <<>>, S(<<"e", "t", "a", "g">>), S(<<"a", ";", "b">>),
      S(<<"x", ";", " ", "m", "e", "t", "a", "=", "y">>) }

\* The values extract_crypto_meta is called with.
ExtractValues ==
    Concats(MaxTokens)
    \cup {S(<<"a", ";", " ">>) \o META_EQ \o d : d \in LoadInputs}

\* The auditor is not running.
AuditorOff ==
    /\ disk = <<>>
    /\ place = <<>>
    /\ entry = "none"
    /\ conf_zero_byte_fps = 50
    /\ kw = [p \in Procs |-> 0]
    /\ pc = [p \in Procs |-> "unborn"]
    /\ worker = [p \in Procs |-> NoWorker]
    /\ cursor = [p \in Procs |-> 0]
    /\ call = [p \in Procs |-> NoCall]
    /\ exc = [p \in Procs |-> "none"]
    /\ renames = [p \in Procs |-> 0]

CodecInit == AuditorOff /\ codec = Idle

\* extract_crypto_meta(value)
Extract ==
    /\ codec = Idle
    /\ \E value \in ExtractValues :
            codec' = [op |-> "extract", value |-> value,
                      res |-> extract_crypto_meta(value)]
    /\ UNCHANGED auditorVars

\* load_crypto_meta(value)
Load ==
    /\ codec = Idle
    /\ \E value \in LoadInputs :
            codec' = [op |-> "load", value |-> value, res |-> load_crypto_meta(value)]
    /\ UNCHANGED auditorVars

\* load_crypto_meta(dump_crypto_meta(crypto_meta))
DumpLoad ==
    /\ codec = Idle
    /\ \E crypto_meta \in ValidMetas : \E order \in Orders(DOMAIN crypto_meta.d) :
            LET dumped == dump_crypto_meta(crypto_meta, order)
            IN  codec' = [op |-> "dump_load", crypto_meta |-> crypto_meta,
                          dumped |-> dumped, res |-> load_crypto_meta(dumped)]
    /\ UNCHANGED auditorVars

\* extract_crypto_meta(append_crypto_meta(value, crypto_meta))
AppendExtract ==
    /\ codec = Idle
    /\ \E value \in AppendValues, crypto_meta \in ValidMetas :
         \E order \in Orders(DOMAIN crypto_meta.d) :
            LET appended == append_crypto_meta(value, crypto_meta, order)
            IN  codec' = [op |-> "append_extract", value |-> value,
                          crypto_meta |-> crypto_meta, appended |-> appended,
                          res |-> extract_crypto_meta(appended)]
    /\ UNCHANGED auditorVars

CodecNext == Extract \/ Load \/ DumpLoad \/ AppendExtract

CodecSpec == CodecInit /\ [][CodecNext]_vars

(***************************************************************************)
(* Properties of the crypto-meta codec.                                    *)
(***************************************************************************)

\* The last ';'-separated segment of v is a meta parameter.
EndsInMetaSegment(v) ==
    \E i \in 1..Len(v) :
        /\ v[i] = Ord(";")
        /\ \A j \in (i + 1)..Len(v) : v[j] # Ord(";")
        /\ StartsWith(Strip(SubSeq(v, i + 1, Len(v))), META_EQ)

\* C7: extract_crypto_meta of a value that does not end in a '; meta=...'
\* segment returns the value unchanged, and None.
C7_NoMetaSegmentUnchanged ==
    codec.op = "extract" /\ ~EndsInMetaSegment(codec.value)
        => codec.res = Return([value |-> codec.value, crypto_meta |-> NoMeta])

\* Every entry of the crypto meta but the iv is a text string.
TextMeta(m) == \A k \in DOMAIN m.d : m.d[k].t = "str"

\* The crypto meta with its numbers replaced by the str of their digits.
NumbersAsText(m) ==
    MetaDict([k \in DOMAIN m.d |->
                IF m.d[k].t = "int" THEN PyStr(IntToStr(m.d[k].n)) ELSE m.d[k]])

\* C8 as stated: load_crypto_meta(dump_crypto_meta(m)) equals m for every valid
\* crypto meta, entry for entry with the same value and value type.
C8_RoundTripExact ==
    codec.op = "dump_load" => codec.res = Return(codec.crypto_meta)

\* C8: load_crypto_meta(dump_crypto_meta(m)) equals m when the entries of m
\* other than the iv are text; an entry that is a number comes back as the str
\* of its digits, the rest of m as it was.
C8_RoundTripOfText ==
    codec.op = "dump_load"
        => /\ codec.res = Return(NumbersAsText(codec.crypto_meta))
           /\ TextMeta(codec.crypto_meta) => codec.res = Return(codec.crypto_meta)

\* A meta with a binary iv and two text entries, one holding "; meta=", was
\* dumped and loaded.
C8_Witness ==
    /\ codec.op = "dump_load"
    /\ TextMeta(codec.crypto_meta)
    /\ DOMAIN codec.crypto_meta.d = {IV} \cup ExtraNames
    /\ 251 \in Range(codec.crypto_meta.d[IV].s)
    /\ \E k \in ExtraNames : Ord(";") \in Range(codec.crypto_meta.d[k].s)
    /\ codec.res = Return(codec.crypto_meta)

\* The serialized crypto meta append_crypto_meta put after '; meta='.
Serialized == SubSeq(codec.appended, Len(codec.value) + 8, Len(codec.appended))

\* C9 as stated: extract_crypto_meta(append_crypto_meta(v, m)) returns (v, m)
\* for every value and every valid crypto meta, and the serialized meta has
\* no ';'.
C9_AppendExtractExact ==
    codec.op = "append_extract"
        => /\ Ord(";") \notin Range(Serialized)
           /\ codec.res = Return([value |-> codec.value,
                                   crypto_meta |-> codec.crypto_meta])

\* C9: the serialized meta has no ';' and extract_crypto_meta recovers v
\* unchanged; it recovers m when the entries of m other than the iv are text,
\* and m with its numbers as the str of their digits otherwise.
C9_AppendExtractOfText ==
    codec.op = "append_extract"
        => /\ Ord(";") \notin Range(Serialized)
           /\ codec.res.exc = "none"
           /\ codec.res.val.value = codec.value
           /\ codec.res.val.crypto_meta = NumbersAsText(codec.crypto_meta)
           /\ TextMeta(codec.crypto_meta)
                => codec.res.val.crypto_meta = codec.crypto_meta

\* A value that itself holds '; meta=' was given a meta with a text entry that
\* holds '; meta=' too, and both were recovered.
C9_Witness ==
    /\ codec.op = "append_extract"
    /\ codec.value = S(<<"x", ";", " ">>) \o META_EQ \o S(<<"y">>)
    /\ TextMeta(codec.crypto_meta)
    /\ \E k \in DOMAIN codec.crypto_meta.d :
            k # IV /\ Ord(";") \in Range(codec.crypto_meta.d[k].s)
    /\ codec.res = Return([value |-> codec.value, crypto_meta |-> codec.crypto_meta])

\* C10: load_crypto_meta returns a crypto meta or raises EncryptionException,
\* nothing else; extract_crypto_meta of a value whose last segment starts with
\* 'meta=' returns a decoded meta or raises EncryptionException.
C10_OnlyEncryptionException ==
    /\ codec.op = "load"
        => \/ codec.res.exc = "EncryptionException"
           \/ codec.res.exc = "none" /\ codec.res.val.t = "dict"
    /\ codec.op = "extract" /\ EndsInMetaSegment(codec.value)
        => \/ codec.res.exc = "EncryptionException"
           \/ codec.res.exc = "none" /\ codec.res.val.crypto_meta.t = "dict"

(***************************************************************************)
(* PART III.  crypto_utils.py: CryptoWSGIContext.get_keys and              *)
(* parse_header_keys.  A call and its outcome are held in codec, as those  *)
(* of the codec are.  Role names and exception classes are strings; a keys *)
(* dict is MetaDict(d), d from role names to keys.                         *)
(***************************************************************************)

\* The length of a key, in bytes.
KEY_LENGTH == 32

\* Most names in the list of required roles.
MaxRequired == 2

Roles == {"object", "container"}

\* A byte string of n bytes.
Key(n) == PyStr([i \in 1..n |-> 0])

\* What the callback may hand out as a key.
KeyValues == {Key(KEY_LENGTH), Key(KEY_LENGTH + 1), Key(16), Key(0), PyNone}

\* What the callback may return: a dict of keys, or something that is none.
KeyDicts == UNION {{MetaDict(d) : d \in [names -> KeyValues]} : names \in SUBSET Roles}
NonMappings == {PyNone, PyList(<<>>), PyStr(S(<<"k", "e", "y">>)), PyInt(5)}

\* Exception classes the callback may raise: subclasses of Exception, and
\* classes that derive from BaseException only.
ExceptionClasses == {"Exception", "KeyError", "ValueError", "TypeError", "IOError"}
BaseExceptionOnly == {"Timeout", "KeyboardInterrupt", "SystemExit"}

\* `except Exception` catches e.
IsException(e) == e \in ExceptionClasses

\* The callback stored in env: none, one that raises, one that returns.
Callbacks ==
    {[kind |-> "raises", e |-> e] : e \in ExceptionClasses \cup BaseExceptionOnly}
    \cup {[kind |-> "returns", keys |-> k] : k \in KeyDicts \cup NonMappings}

NoCallback == [kind |-> "absent"]

\* The lists of at most n role names.
RECURSIVE RoleLists(_)
RoleLists(n) ==
    IF n = 0 THEN {<<>>}
    ELSE LET shorter == RoleLists(n - 1)
         IN  shorter \cup {Append(l, r) : l \in shorter, r \in Roles}

\* The required argument: None, or a list of role names.
NoneRequired == [none |-> TRUE, roles |-> <<>>]
Required(roles) == [none |-> FALSE, roles |-> roles]

RequiredArgs == {Required(roles) : roles \in RoleLists(MaxRequired)} \cup {NoneRequired}

\* raise HTTPInternalServerError("Unable to retrieve encryption keys."), after
\* logger.exception(log).
InternalServerError(log) ==
    [exc |-> "HTTPInternalServerError",
     body |-> "Unable to retrieve encryption keys.", val |-> PyNone, log |-> log]

\* An exception that leaves get_keys as it was raised.
Propagates(e) == [exc |-> e, body |-> "", val |-> PyNone, log |-> <<>>]

\* return keys
ReturnsKeys(keys) == [exc |-> "none", body |-> "", val |-> keys, log |-> <<>>]

\* keys[name]
GetItem(keys, name) ==
    IF keys.t # "dict" THEN Raise("TypeError")
    ELSE IF name \notin DOMAIN keys.d THEN Raise("KeyError")
    ELSE Return(keys.d[name])

\* crypto.check_key(key): the length check of the key.
check_key(key) ==
    IF key.t # "str" THEN Raise("TypeError")
    ELSE IF Len(key.s) # KEY_LENGTH THEN Raise("ValueError")
    ELSE Return(PyNone)

\* The try block of the loop of get_keys, keys[name] looked up.
LookedUp(item) == IF item.exc # "none" THEN item.exc ELSE check_key(item.val).exc

\* A handler of the loop that lets the ValueError of the key check through.
KeyLoopLog_NoValueError(e) ==
    CASE e = "KeyError"  -> "Missing key"
      [] e = "TypeError" -> "Did not get a keys dict"
      [] OTHER -> "uncaught"

\* The except clauses of the loop of get_keys: what they log.
KeyLoopLog(e) ==
    CASE e = "KeyError"   -> "Missing key"
      [] e = "TypeError"  -> "Did not get a keys dict"
      [] e = "ValueError" -> "Bad key"
      [] OTHER -> "uncaught"

\* One round of the loop for the exception e its try block raised on name.
AfterRole(name, e) ==
    IF KeyLoopLog(e) = "uncaught" THEN Propagates(e)
    ELSE IF e = "TypeError" THEN InternalServerError(<<KeyLoopLog(e)>>)
    ELSE InternalServerError(<<KeyLoopLog(e), name>>)

\* A loop that looks at the first required name only.
KeyLoop_FirstOnly(keys, required, i) ==
    IF i > Len(required) THEN ReturnsKeys(keys)
    ELSE IF LookedUp(GetItem(keys, required[i])) = "none" THEN ReturnsKeys(keys)
    ELSE AfterRole(required[i], LookedUp(GetItem(keys, required[i])))

\* for name in required, from the i-th name on; then return keys.
RECURSIVE KeyLoop(_, _, _)
KeyLoop(keys, required, i) ==
    IF i > Len(required) THEN ReturnsKeys(keys)
    ELSE IF LookedUp(GetItem(keys, required[i])) = "none" THEN KeyLoop(keys, required, i + 1)
    ELSE AfterRole(required[i], LookedUp(GetItem(keys, required[i])))

\* get_keys(env, required) of a context of the given server type.
get_keys(server_type, callback, required) ==
    IF callback.kind = "absent" THEN InternalServerError(<<"not in env">>)
    ELSE IF callback.kind = "raises"
        THEN (IF IsException(callback.e)
              THEN InternalServerError(<<"from callback", callback.e>>)
              ELSE Propagates(callback.e))
    ELSE KeyLoop(callback.keys,
                 IF required.none THEN <<server_type>> ELSE required.roles, 1)

\* get_keys(env, required)
GetKeys ==
    /\ codec = Idle
    /\ \E server_type \in Roles, callback \in Callbacks \cup {NoCallback},
          required \in RequiredArgs :
            codec' = [op |-> "get_keys", server_type |-> server_type,
                      callback |-> callback, required |-> required,
                      res |-> get_keys(server_type, callback, required)]
    /\ UNCHANGED auditorVars

(***************************************************************************)
(* parse_header_keys.  req.headers is a function from the names of the     *)
(* headers present to their values.                                        *)
(***************************************************************************)

OBJECT_KEY_HEADER    == "X-Crypto-Object-Key"
CONTAINER_KEY_HEADER == "X-Crypto-Container-Key"

ByokHeaders == {OBJECT_KEY_HEADER, CONTAINER_KEY_HEADER}

\* n bytes that are not all the same.
KeyBytes(n) == [i \in 1..n |-> IF i % 3 = 0 THEN 251 ELSE i]

\* The values of a BYOK header: the base64 of keys of 32 and of other lengths,
\* one broken by white space, text that is no base64, and nothing.
HeaderValues ==
    { b64encode(KeyBytes(KEY_LENGTH)),
      b64encode(KeyBytes(KEY_LENGTH + 1)),
      b64encode(KeyBytes(KEY_LENGTH - 1)),
      b64encode(KeyBytes(20)),
      SubSeq(b64encode(KeyBytes(KEY_LENGTH)), 1, 10) \o S(<<" ">>) \o <<10>>
          \o SubSeq(b64encode(KeyBytes(KEY_LENGTH)), 11, 44),
      SubSeq(b64encode(KeyBytes(KEY_LENGTH)), 1, 43),
      S(<<"a", "b", "c">>),
      <<>> }

RequestHeaders == UNION {[names -> HeaderValues] : names \in SUBSET ByokHeaders}

\* raise HTTPBadRequest("%s <what>" % header_name)
BadRequest(header_name, what) ==
    [exc |-> "HTTPBadRequest", body |-> <<header_name, what>>, val |-> PyNone]

\* A length check that takes a key of any length.
WrongLength_Never(key) == FALSE

\* len(key) != 32
WrongLength(key) == Len(key.s) # KEY_LENGTH

\* _validate_key after base64.b64decode was called.
Validated(header_name, decoded) ==
    IF decoded.exc = "TypeError" THEN BadRequest(header_name, "is an invalid format")
    ELSE IF decoded.exc # "none" THEN [exc |-> decoded.exc, body |-> <<>>, val |-> PyNone]
    ELSE IF WrongLength(decoded.val) THEN BadRequest(header_name, "length should be 32")
    ELSE [exc |-> "none", body |-> <<>>, val |-> decoded.val]

\* _validate_key(header_name)
validate_key(headers, header_name) ==
    IF header_name \notin DOMAIN headers THEN BadRequest(header_name, "is missing")
    ELSE Validated(header_name, b64decode(PyStr(headers[header_name])))

\* The two assignments to keys, the keys validated.
BothKeys(object, container) ==
    IF object.exc # "none" THEN object
    ELSE IF container.exc # "none" THEN container
    ELSE [exc |-> "none", body |-> <<>>,
          val |-> MetaDict([r \in Roles |->
                      IF r = "object" THEN object.val ELSE container.val])]

\* parse_header_keys(req)
parse_header_keys(headers) ==
    IF DOMAIN headers \cap ByokHeaders # {}
    THEN BothKeys(validate_key(headers, OBJECT_KEY_HEADER),
                  validate_key(headers, CONTAINER_KEY_HEADER))
    ELSE [exc |-> "none", body |-> <<>>, val |-> MetaDict(<<>>)]

\* parse_header_keys(req)
ParseHeaderKeys ==
    /\ codec = Idle
    /\ \E headers \in RequestHeaders :
            codec' = [op |-> "parse_header_keys", headers |-> headers,
                      res |-> parse_header_keys(headers)]
    /\ UNCHANGED auditorVars

KeysNext == GetKeys \/ ParseHeaderKeys

KeysSpec == CodecInit /\ [][KeysNext]_vars

(***************************************************************************)
(* Properties of get_keys and parse_header_keys.                           *)
(***************************************************************************)

\* The roles the call requires: the list given, or the server type alone.
RequiredRoles ==
    IF codec.required.none THEN <<codec.server_type>> ELSE codec.required.roles

\* The callback returned a dict that has a key of the right length for role.
ValidRole(role) ==
    /\ codec.callback.kind = "returns"
    /\ codec.callback.keys.t = "dict"
    /\ role \in DOMAIN codec.callback.keys.d
    /\ codec.callback.keys.d[role].t = "str"
    /\ Len(codec.callback.keys.d[role].s) = KEY_LENGTH

C12_AllRequiredRolesValid ==
    codec.op = "get_keys"
        => /\ codec.res.exc = "none"
                => /\ codec.callback.kind = "returns"
                   /\ codec.res.val = codec.callback.keys
                   /\ \A i \in DOMAIN RequiredRoles : ValidRole(RequiredRoles[i])
           /\ codec.res.exc # "none" /\ Len(codec.res.log) = 2
                /\ codec.res.log[1] \in {"Missing key", "Bad key"}
                => \E i \in DOMAIN RequiredRoles :
                    /\ RequiredRoles[i] = codec.res.log[2]
                    /\ ~ValidRole(RequiredRoles[i])
                    /\ \A j \in 1..(i - 1) : ValidRole(RequiredRoles[j])

\* Two roles were required, the first was valid, the second was missing, and
\* no keys were returned.
C12_Witness ==
    /\ codec.op = "get_keys"
    /\ Len(RequiredRoles) = 2
    /\ ValidRole(RequiredRoles[1])
    /\ codec.callback.keys.t = "dict"
    /\ RequiredRoles[2] \notin DOMAIN codec.callback.keys.d
    /\ codec.res.exc = "HTTPInternalServerError"
    /\ codec.res.log = <<"Missing key", RequiredRoles[2]>>

\* The header is present and is the base64 of 32 bytes.
GoodHeader(h) ==
    /\ h \in DOMAIN codec.headers
    /\ b64decode(PyStr(codec.headers[h])).exc = "none"
    /\ Len(b64decode(PyStr(codec.headers[h])).val.s) = KEY_LENGTH

\* C13: parse_header_keys returns an empty dict when neither header is
\* present; otherwise it returns exactly the roles object and container, each
\* the 32 bytes its header decodes to, or raises HTTPBadRequest naming the
\* first header, object before container, that is missing, malformed or of the
\* wrong length.
C13_AllOrNothing ==
    codec.op = "parse_header_keys"
        => /\ DOMAIN codec.headers = {}
                => codec.res.exc = "none" /\ codec.res.val = MetaDict(<<>>)
           /\ DOMAIN codec.headers # {}
                => \/ /\ codec.res.exc = "none"
                      /\ GoodHeader(OBJECT_KEY_HEADER) /\ GoodHeader(CONTAINER_KEY_HEADER)
                      /\ DOMAIN codec.res.val.d = {"object", "container"}
                      /\ codec.res.val.d["object"]
                            = b64decode(PyStr(codec.headers[OBJECT_KEY_HEADER])).val
                      /\ codec.res.val.d["container"]
                            = b64decode(PyStr(codec.headers[CONTAINER_KEY_HEADER])).val
                      /\ \A r \in {"object", "container"} :
                            Len(codec.res.val.d[r].s) = KEY_LENGTH
                   \/ /\ codec.res.exc = "HTTPBadRequest"
                      /\ codec.res.body[1] \in ByokHeaders
                      /\ ~GoodHeader(codec.res.body[1])
                      /\ codec.res.body[1] = CONTAINER_KEY_HEADER
                            => GoodHeader(OBJECT_KEY_HEADER)
                      /\ codec.res.body[2] =
                            (IF codec.res.body[1] \notin DOMAIN codec.headers
                             THEN "is missing"
                             ELSE IF b64decode(PyStr(codec.headers[codec.res.body[1]])).exc
                                        # "none"
                             THEN "is an invalid format"
                             ELSE "length should be 32")

\* Both headers were present, the object key of 32 bytes and the container key
\* of 20, and the call was refused for the length of the container key.
C13_Witness ==
    /\ codec.op = "parse_header_keys"
    /\ DOMAIN codec.headers = ByokHeaders
    /\ GoodHeader(OBJECT_KEY_HEADER)
    /\ codec.headers[CONTAINER_KEY_HEADER] = b64encode(KeyBytes(20))
    /\ codec.res.exc = "HTTPBadRequest"
    /\ codec.res.body = <<CONTAINER_KEY_HEADER, "length should be 32">>

(***************************************************************************)
(* PART IV.  The auditor as a daemon: the processes of run_forever, the    *)
(* summary of a pass, the counters of a worker, and the object directories.*)
(***************************************************************************)

\* The steps of process p.
ProcessStep(p) ==
    \/ RunOnce(p)
    \/ Yield(p)
    \/ \E fault \in Faults : ObjectAudit(p, fault)
    \/ \E qfault \in QFaults : Quarantine(p, qfault)
    \/ \E report \in BOOLEAN : LoopTail(p, report)
    \/ \E elapsed \in {0, 1} : EndPass(p, elapsed)
    \/ Sleep(p)

\* The daemon with its processes scheduled: a process that can take a step
\* takes one.
FairSpec ==
    /\ Init
    /\ [][Next]_vars
    /\ WF_vars(RunForever)
    /\ \A p \in Procs : WF_vars(ProcessStep(p))

\* C14: every process of run_forever, once started, always comes to start
\* another pass.
C14_PassesRepeatForever ==
    \A p \in Procs :
        [](entry = "run_forever" /\ pc[p] \notin {"unborn", "run_forever"}
            => <>(pc[p] = "run_once"))

\* C15: after the fork of run_forever there are never two processes whose
\* workers both make full audits.
C15_NeverTwoFullAuditors ==
    ~(\A p \in Procs : worker[p].auditor_type = "ALL")

\* C16: the summary of audit_all_objects raises nothing, whatever the elapsed
\* time of the pass.
C16_SummaryNeverRaises ==
    \A p \in Procs : exc[p] # "audit_all_objects"

\* The call of p was on a location whose directory had been moved away.
OnMovedDirectory(p) == Ended(p) /\ ~call[p].present

\* C17: every object directory is at its original location or in the
\* quarantine area; it gets there in one step, the quarantine action of a call
\* on it, after invalidate_hash has returned; once there it never comes back,
\* the walker hands out no location in it, and a call that was handed one
\* before the move reads nothing of it.
C17_OnePlaceNeverBack ==
    /\ [](\A o \in Objects : place[o] \in {"orig", "quar"})
    /\ [](\A p \in Procs : OnMovedDirectory(p) =>
            /\ BytesUntouched(p)
            /\ worker[p].passes = Pre(p).passes
            /\ worker[p].errors = Pre(p).errors
            /\ renames[p] = call[p].preRenames)
    /\ [][\A o \in Objects :
            /\ place[o] = "quar" => place'[o] = "quar"
            /\ place'[o] # place[o] =>
                \E p \in Procs :
                    /\ pc[p] = "quarantine" /\ call[p].obj = o
                    /\ pc'[p] = "returned" /\ call'[p].end = "quarantined"
            /\ \A p \in Procs :
                pc[p] = "walk" /\ pc'[p] = "audit" /\ call'[p].obj = o
                    => place[o] = "orig"]_vars

\* A directory is in quarantine, and a process has finished a pass in which it
\* audited every directory left in the tree and moved none.
C17_Witness ==
    \E p \in Procs :
        /\ \E o \in Objects : place[o] = "quar"
        /\ \E o \in Objects : place[o] = "orig"
        /\ pc[p] = "sleep"
        /\ renames[p] = 0
        /\ worker[p].total_files_processed
                = Cardinality({o \in Objects : place[o] = "orig"})

\* The counters of a worker that a report resets.
Windowed(w) == <<w.passes, w.quarantines, w.errors, w.bytes_processed>>

\* Process p has a worker, and its step is a step of that worker's pass.
InPass(p) == worker[p].auditor_type # "none" /\ pc[p] # "run_once"

\* The step is the rest of the loop body of p after object_audit returned.
LoopTailStep(p) == pc[p] = "returned" /\ pc'[p] = "walk"

\* C18: total_bytes_processed is never less than bytes_processed; within a
\* pass the two totals never decrease; the rest of the loop body after each
\* object_audit call, whatever its outcome, adds exactly 1 to
\* total_files_processed, leaves total_bytes_processed, and either leaves the
\* windowed counters or (the report) sets all four to 0; no other step changes
\* total_files_processed.
C18_WindowedAndTotals ==
    /\ [](\A p \in Procs : worker[p].auditor_type # "none" =>
            worker[p].total_bytes_processed >= worker[p].bytes_processed)
    /\ [][\A p \in Procs : InPass(p) =>
            /\ worker'[p].total_files_processed >= worker[p].total_files_processed
            /\ worker'[p].total_bytes_processed >= worker[p].total_bytes_processed
            /\ LoopTailStep(p) =>
                /\ worker'[p].total_files_processed
                        = worker[p].total_files_processed + 1
                /\ worker'[p].total_bytes_processed = worker[p].total_bytes_processed
                /\ Windowed(worker'[p]) \in {Windowed(worker[p]), <<0, 0, 0, 0>>}
            /\ ~LoopTailStep(p) =>
                worker'[p].total_files_processed = worker[p].total_files_processed]_vars

\* A worker has been through a report after it read content: its windowed
\* counters are 0 and its totals are not.
C18_Witness ==
    \E p \in Procs :
        /\ pc[p] = "walk"
        /\ worker[p].total_files_processed = 2
        /\ worker[p].total_bytes_processed > 0
        /\ Windowed(worker[p]) = <<0, 0, 0, 0>>

\* C19: an object_audit call ends as a skip, a pass, a quarantine or an error,
\* and by then has added 1 to at most one of passes, quarantines and errors
\* (to none of them when it is a skip) and more to none.
C19_OneOfFourOutcomes ==
    \A p \in Procs : Ended(p) =>
        /\ call[p].end \in {"skip", "pass", "AuditException", "quarantined", "Exception"}
        /\ worker[p].passes - Pre(p).passes \in {0, 1}
        /\ worker[p].quarantines - Pre(p).quarantines \in {0, 1}
        /\ worker[p].errors - Pre(p).errors \in {0, 1}
        /\ (worker[p].passes - Pre(p).passes)
            + (worker[p].quarantines - Pre(p).quarantines)
            + (worker[p].errors - Pre(p).errors) <= 1
        /\ call[p].end = "skip" => Windowed(worker[p]) = Windowed(Pre(p))

\* C20: outside the quarantine action, the quarantines counter of a worker is
\* the number of directories it has renamed since its last reset, and a call
\* counted as a pass or an error has renamed none.
C20_QuarantinesCountRenames ==
    \A p \in Procs :
        /\ worker[p].auditor_type # "none" /\ pc[p] # "quarantine"
            => worker[p].quarantines = renames[p]
        /\ Ended(p) /\ call[p].end \in {"pass", "Exception"}
            => renames[p] = call[p].preRenames

====
